---------------------------- MODULE Spec2Model ----------------------------
(***************************************************************************)
(* pingdisco: the subnet sweep of cmd/pingdisco/main.go.                   *)
(*                                                                         *)
(* scanSubnet enumerates the addresses of an IPv4 network, starts one      *)
(* goroutine per candidate address (pingHost, then resolveHostname and an  *)
(* append to the shared slice under a mutex), waits on a WaitGroup, sorts  *)
(* the slice by final octet and returns it; main displays it.              *)
(*                                                                         *)
(* Addresses are 4-byte sequences of octets 0..255 (the To4 form that      *)
(* net.IP.Mask returns for an IPv4 address and a 4-byte mask).  Go indexes *)
(* from 0 and TLA+ from 1: Octet(ip, j) is Go's ip[j].                     *)
(***************************************************************************)
EXTENDS Integers, Sequences, FiniteSets, TLC

VARIABLES
    ipnet,      \* the *net.IPNet handed to scanSubnet: [IP, Mask]
    ip,         \* the loop variable of line 83 (a buffer of its own)
    pc,         \* where main/scanSubnet stands
    units,      \* the goroutines of line 89 not yet returned, by launch number
    devices,    \* the shared slice `devices`
    mu,         \* sync.Mutex: 0 when free, else the unit holding it
    wg,         \* sync.WaitGroup counter
    panicked,   \* "" or the runtime panic that killed the process
    launched,   \* history: how many goroutines line 89 has started
    pings,      \* history: the hosts (dotted quads) pingHost returned true for
    lookups,    \* history: <<host, hostname>> of every resolveHostname call
    appended,   \* history: the addresses in the order they were appended
    lookup,     \* what net.LookupAddr returns to a stand-alone resolveHostname
    resolveOut, \* that call's outcome: [done, panic, hostname]
    scenario,   \* "any", or the fixed prober and resolver the hosts follow
    interfaces, \* main: the interfaces of line 29 not yet scanned
    err         \* main: err of line 29 is not nil

vars == <<ipnet, ip, pc, units, devices, mu, wg, panicked, launched, pings,
          lookups, appended, lookup, resolveOut, scenario, interfaces, err>>

---------------------------------------------------------------------------
(* Bytes and addresses                                                     *)

\* a Go byte holds 0..255; ip[j]++ wraps modulo this
ByteMod == 256

\* net.IPv4len
IPv4len == 4

Byte == 0 .. (ByteMod - 1)

\* Go's ip[j] (0-based)
Octet(a, j) == a[j + 1]

\* a & b on bytes
RECURSIVE ByteAnd(_, _)
ByteAnd(a, b) ==
    IF a = 0 \/ b = 0 THEN 0
    ELSE (a % 2) * (b % 2) + 2 * ByteAnd(a \div 2, b \div 2)

\* net.CIDRMask(ones, 32): the mask an interface address carries
CIDRMask(ones) ==
    [j \in 1 .. IPv4len |->
        LET n == ones - 8 * (j - 1)
        IN  IF n >= 8 THEN ByteMod - 1
            ELSE IF n <= 0 THEN 0
            ELSE ByteMod - 2 ^ (8 - n)]

\* a Mask that leaves the address as it is
MaskKeepsAll(a, m) == a

\* net.IP.Mask: a NEW buffer holding ip AND mask, byte by byte
Mask(a, m) == [j \in 1 .. IPv4len |-> ByteAnd(a[j], m[j])]

\* net.IPNet.Contains: n.IP AND n.Mask equals ip AND n.Mask on every byte
Contains(n, a) ==
    \A j \in 1 .. IPv4len : ByteAnd(n.IP[j], n.Mask[j]) = ByteAnd(a[j], n.Mask[j])

\* incrementIP with the byte at Go index j wrapped and the carry moving
\* to index j-1: the loop of lines 117-122 from index j down
RECURSIVE IncFrom(_, _)
IncFrom(a, j) ==
    IF j < 0 THEN a
    ELSE LET b == [a EXCEPT ![j + 1] = (a[j + 1] + 1) % ByteMod]
         IN  IF Octet(b, j) > 0 THEN b ELSE IncFrom(b, j - 1)

\* an increment of the last byte alone, the carry dropped
IncrementLastByte(a) == [a EXCEPT ![Len(a)] = (a[Len(a)] + 1) % ByteMod]

\* incrementIP (lines 116-123)
IncrementIP(a) == IncFrom(a, Len(a) - 1)

\* a is numerically below b, as big-endian 32-bit values
Below(a, b) ==
    \E j \in 1 .. IPv4len : a[j] < b[j] /\ \A i \in 1 .. (j - 1) : a[i] = b[i]

\* a number in decimal, as a string (the sequence of its characters)
Digits == <<"0", "1", "2", "3", "4", "5", "6", "7", "8", "9">>

RECURSIVE Decimal(_)
Decimal(n) ==
    IF n < 10 THEN <<Digits[n + 1]>>
    ELSE Decimal(n \div 10) \o <<Digits[(n % 10) + 1]>>

\* targetIP.String() of a 4-byte address: the dotted quad
IPString(a) ==
    Decimal(a[1]) \o <<".">> \o Decimal(a[2]) \o <<".">> \o
    Decimal(a[3]) \o <<".">> \o Decimal(a[4])

\* the exclusion without its test for 255
SkippedOnlyZero(a) == Octet(a, 3) = 0

\* the exclusion with its upper test one too low
SkippedFrom254(a) == Octet(a, 3) = 0 \/ Octet(a, 3) >= 254

\* line 84: ip[3] == 0 || ip[3] == 255
Skipped(a) == Octet(a, 3) = 0 \/ Octet(a, 3) = 255

\* the network address of the range: ipnet.IP.Mask(ipnet.Mask), line 82
Base(n) == Mask(n.IP, n.Mask)

\* an interface address with a prefix length, as net.Interfaces reports it
IPNet(a, ones) == [IP |-> a, Mask |-> CIDRMask(ones)]

---------------------------------------------------------------------------
(* The two capabilities: the ping process and the reverse lookup           *)

\* what can become of one run of the ping command
ProbeOutcomes == {"reply", "timeout", "unreachable", "denied", "missing"}

\* cmd.Run() (line 134, its error dropped) leaves cmd.ProcessState: nil when
\* the process never started, else the exit status of ping
ProcessState(o) ==
    CASE o = "missing"     -> [nil |-> TRUE,  exit |-> 0]
      [] o = "reply"       -> [nil |-> FALSE, exit |-> 0]
      [] o = "denied"      -> [nil |-> FALSE, exit |-> 2]
      [] OTHER             -> [nil |-> FALSE, exit |-> 1]

\* pingHost (lines 125-136): cmd.ProcessState.Success() dereferences the
\* state; on nil that is a runtime panic
PingHost(o) ==
    LET st == ProcessState(o)
    IN  IF st.nil THEN [panic |-> TRUE, online |-> FALSE]
        ELSE [panic |-> FALSE, online |-> (st.exit = 0)]

\* a string is the sequence of its characters; "" is << >>
EmptyString == << >>

\* resolveHostname without the removal of the trailing dot
ResolveHostnameKeepDot(l) ==
    IF l.err \/ Len(l.names) = 0
    THEN [panic |-> FALSE, hostname |-> EmptyString]
    ELSE [panic |-> Len(l.names[1]) = 0, hostname |-> l.names[1]]

\* resolveHostname after net.LookupAddr returned l = [names, err]
\* (lines 140-149): hostname[len(hostname)-1] on an empty hostname is an
\* index out of range, a runtime panic
ResolveHostname(l) ==
    IF l.err \/ Len(l.names) = 0
    THEN [panic |-> FALSE, hostname |-> EmptyString]
    ELSE LET hostname == l.names[1]
         IN  IF Len(hostname) = 0
             THEN [panic |-> TRUE, hostname |-> EmptyString]
             ELSE IF hostname[Len(hostname)] = "."
             THEN [panic |-> FALSE,
                   hostname |-> SubSeq(hostname, 1, Len(hostname) - 1)]
             ELSE [panic |-> FALSE, hostname |-> hostname]

\* what net.LookupAddr of the required toolchain (Go 1.22) can return to a
\* sweep: an error, no name, or names that passed its isDomainName filter
\* (never an empty name)
LibLookups ==
    { [names |-> << >>, err |-> TRUE],
      [names |-> << >>, err |-> FALSE],
      [names |-> << <<"g", "w", ".">>, <<"x">> >>, err |-> FALSE] }

\* "gateway.lan." as reverse DNS returns it, fully qualified
GatewayLanDot == <<"g", "a", "t", "e", "w", "a", "y", ".", "l", "a", "n", ".">>

GatewayLan == SubSeq(GatewayLanDot, 1, Len(GatewayLanDot) - 1)

\* the hosts of a fixed scenario that answer a ping
Reachable(sc) ==
    CASE sc = "home"  -> { <<192, 168, 1, 1>>, <<192, 168, 1, 50>>, <<192, 168, 1, 254>> }
      [] OTHER        -> {}

\* what ping does for host h (a dotted quad): anything when no scenario
\* is fixed
ProbeChoices(sc, h) ==
    IF sc = "any" THEN ProbeOutcomes
    ELSE IF h \in { IPString(a) : a \in Reachable(sc) } THEN {"reply"} ELSE {"timeout"}

\* what net.LookupAddr returns for host h (a dotted quad)
LookupChoices(sc, h) ==
    IF sc = "any" THEN LibLookups
    ELSE IF sc = "home" /\ h = IPString(<<192, 168, 1, 1>>)
         THEN { [names |-> <<GatewayLanDot>>, err |-> FALSE] }
    ELSE { [names |-> << >>, err |-> TRUE] }

---------------------------------------------------------------------------
(* scanSubnet                                                              *)

\* Device{IP, Online, Hostname} (lines 19-23)
Device(a, online, hostname) ==
    [IP |-> a, Online |-> online, Hostname |-> hostname]

\* make(net.IP, len(targetIP)): a zeroed buffer
ZeroIP == [j \in 1 .. IPv4len |-> 0]

\* the goroutine of lines 89-104 at its launch, with its own copy of ip
\* (append(net.IP(nil), ip...), line 104)
NewUnit(a) ==
    [targetIP |-> a, pc |-> "ping", online |-> FALSE, hostname |-> EmptyString]

\* the less function with the comparison turned round
LessDescending(d, e) == Octet(d.IP, 3) > Octet(e.IP, 3)

\* the less function of line 110
Less(d, e) == Octet(d.IP, 3) < Octet(e.IP, 3)

Perms(n) == { f \in [1 .. n -> 1 .. n] : \A i, j \in 1 .. n : i # j => f[i] # f[j] }

\* the slice left as the goroutines filled it
NoSort(s) == {s}

\* sort.Slice (lines 109-111): some rearrangement of the slice in which no
\* element is less than an earlier one; sort.Slice is not stable, so
\* elements that compare equal may come out in any order
SortSlice(s) ==
    { t \in { [i \in 1 .. Len(s) |-> s[f[i]]] : f \in Perms(Len(s)) } :
        \A i, j \in 1 .. Len(s) : i < j => ~Less(t[j], t[i]) }

Alive == pc \notin {"crashed", "displayed", "call"}

\* a loop variable that shares its bytes with ipnet.IP: what incrementIP
\* writes shows in the range
IPNetAliased(n, a) == [n EXCEPT !.IP = a]

\* the range after incrementIP has left a in the loop's buffer: that
\* buffer is the one ip.Mask made (lines 82-83), not ipnet.IP, so the
\* range is as it was
IPNetAfterIncrement(n, a) == n

\* line 83, condition true; line 84 true: continue, then incrementIP(ip)
LoopSkip ==
    /\ pc = "loop"
    /\ Contains(ipnet, ip)
    /\ Skipped(ip)
    /\ ip' = IncrementIP(ip)
    /\ ipnet' = IPNetAfterIncrement(ipnet, ip')
    /\ UNCHANGED <<pc, units, devices, mu, wg, panicked, launched,
                   pings, lookups, appended, lookup, resolveOut, scenario, interfaces, err>>

\* a launch that waits until the goroutines launched before have returned
GoWaitsForEarlier == units = << >>

\* lines 88-89: wg.Add(1) and the go statement start the goroutine at
\* once; nothing in the loop waits for a goroutine already running
GoStarts == TRUE

\* line 83, condition true; lines 88-104: wg.Add(1), go func(copy of ip),
\* then incrementIP(ip)
LoopLaunch ==
    /\ pc = "loop"
    /\ Contains(ipnet, ip)
    /\ ~Skipped(ip)
    /\ GoStarts
    /\ wg' = wg + 1
    /\ units' = units @@ ((launched + 1) :> NewUnit(ip))
    /\ ip' = IncrementIP(ip)
    /\ ipnet' = IPNetAfterIncrement(ipnet, ip')
    /\ launched' = launched + 1
    /\ UNCHANGED <<pc, devices, mu, panicked, pings, lookups,
                   appended, lookup, resolveOut, scenario, interfaces, err>>

\* line 83, condition false: the loop ends and scanSubnet reaches wg.Wait()
LoopExit ==
    /\ pc = "loop"
    /\ ~Contains(ipnet, ip)
    /\ pc' = "wait"
    /\ UNCHANGED <<ipnet, ip, units, devices, mu, wg, panicked, launched,
                   pings, lookups, appended, lookup, resolveOut, scenario, interfaces, err>>

\* a Wait that does not block
WaitReturnsAtOnce == TRUE

\* wg.Wait() (line 107) blocks until the counter is zero
WaitReturns == wg = 0

\* line 107: wg.Wait()
Wait ==
    /\ pc = "wait"
    /\ WaitReturns
    /\ pc' = "sort"
    /\ UNCHANGED <<ipnet, ip, units, devices, mu, wg, panicked, launched,
                   pings, lookups, appended, lookup, resolveOut, scenario, interfaces, err>>

\* lines 109-113: sort.Slice in place, return devices
Sort ==
    /\ pc = "sort"
    /\ devices' \in SortSlice(devices)
    /\ pc' = "returned"
    /\ UNCHANGED <<ipnet, ip, units, mu, wg, panicked, launched, pings,
                   lookups, appended, lookup, resolveOut, scenario, interfaces, err>>

\* main, line 41: displayDevices(devices)
Display ==
    /\ pc = "returned"
    /\ pc' = "displayed"
    /\ UNCHANGED <<ipnet, ip, units, devices, mu, wg, panicked, launched,
                   pings, lookups, appended, lookup, resolveOut, scenario, interfaces, err>>

\* a runtime panic in any goroutine ends the whole process
Crash(why) ==
    /\ pc' = "crashed"
    /\ panicked' = why
    /\ UNCHANGED <<ipnet, ip, units, devices, mu, wg, launched, pings,
                   lookups, appended, lookup, resolveOut, scenario, interfaces, err>>

Running(u, at) == Alive /\ u \in DOMAIN units /\ units[u].pc = at

\* a goroutine that resolves whatever the ping said
AfterPingAlwaysResolve(online) == "resolve"

\* line 93: if online { resolve, lock, append } else straight to the return
AfterPing(online) == IF online THEN "resolve" ELSE "done"

\* a goroutine that reads the loop's buffer ip instead of a copy of it
TargetIPShared(u) == ip

\* targetIP as goroutine u reads it: its parameter, the copy made at its
\* launch (line 104), which the loop's incrementIP never writes
TargetIP(u) == units[u].targetIP

\* line 91: online := pingHost(targetIP.String()); line 93 when false
UnitPing(u) ==
    /\ Running(u, "ping")
    /\ \E o \in ProbeChoices(scenario, IPString(TargetIP(u))) :
          LET r == PingHost(o)
          IN  IF r.panic
              THEN Crash("nil pointer dereference")
              ELSE /\ units' = [units EXCEPT
                                   ![u].online = r.online,
                                   ![u].pc = AfterPing(r.online)]
                   /\ pings' = IF r.online
                               THEN pings \cup {IPString(TargetIP(u))}
                               ELSE pings
                   /\ UNCHANGED <<ipnet, ip, pc, devices, mu, wg, panicked,
                                  launched, lookups, appended, lookup, resolveOut, scenario, interfaces, err>>

\* line 94: hostname := resolveHostname(targetIP.String())
UnitResolve(u) ==
    /\ Running(u, "resolve")
    /\ \E l \in LookupChoices(scenario, IPString(TargetIP(u))) :
          LET r == ResolveHostname(l)
          IN  IF r.panic
              THEN Crash("index out of range")
              ELSE /\ units' = [units EXCEPT ![u].hostname = r.hostname,
                                             ![u].pc = "lock"]
                   /\ lookups' = lookups \cup
                                    {<<IPString(TargetIP(u)), r.hostname>>}
                   /\ UNCHANGED <<ipnet, ip, pc, devices, mu, wg, panicked,
                                  launched, pings, appended, lookup, resolveOut, scenario, interfaces, err>>

\* a Lock that excludes no one
LockNoExclusion(u) == TRUE

\* sync.Mutex: Lock goes through only when no one holds the mutex
LockFree(u) == mu = 0

\* line 95: mu.Lock()
UnitLock(u) ==
    /\ Running(u, "lock")
    /\ LockFree(u)
    /\ mu' = u
    /\ units' = [units EXCEPT ![u].pc = "append"]
    /\ UNCHANGED <<ipnet, ip, pc, devices, wg, panicked, launched, pings,
                   lookups, appended, lookup, resolveOut, scenario, interfaces, err>>

\* lines 96-100: devices = append(devices, Device{IP: make(...), ...})
UnitAppend(u) ==
    /\ Running(u, "append")
    /\ devices' = Append(devices,
                         Device(ZeroIP, units[u].online, units[u].hostname))
    /\ units' = [units EXCEPT ![u].pc = "copy"]
    /\ UNCHANGED <<ipnet, ip, pc, mu, wg, panicked, launched, pings,
                   lookups, appended, lookup, resolveOut, scenario, interfaces, err>>

\* line 101: copy(devices[len(devices)-1].IP, targetIP)
UnitCopy(u) ==
    /\ Running(u, "copy")
    /\ devices' = [devices EXCEPT ![Len(devices)].IP = TargetIP(u)]
    /\ appended' = Append(appended, TargetIP(u))
    /\ units' = [units EXCEPT ![u].pc = "unlock"]
    /\ UNCHANGED <<ipnet, ip, pc, mu, wg, panicked, launched, pings,
                   lookups, lookup, resolveOut, scenario, interfaces, err>>

\* a goroutine that leaves the append without unlocking
UnitNoUnlock(u) ==
    /\ Running(u, "unlock")
    /\ units' = [units EXCEPT ![u].pc = "done"]
    /\ UNCHANGED <<ipnet, ip, pc, devices, mu, wg, panicked, launched, pings,
                   lookups, appended, lookup, resolveOut, scenario, interfaces, err>>

\* line 102: mu.Unlock()
UnitUnlock(u) ==
    /\ Running(u, "unlock")
    /\ mu' = 0
    /\ units' = [units EXCEPT ![u].pc = "done"]
    /\ UNCHANGED <<ipnet, ip, pc, devices, wg, panicked, launched, pings,
                   lookups, appended, lookup, resolveOut, scenario, interfaces, err>>

\* a goroutine that returns without wg.Done()
UnitReturnsNoDone(u) ==
    /\ Running(u, "done")
    /\ units' = [v \in DOMAIN units \ {u} |-> units[v]]
    /\ UNCHANGED <<ipnet, ip, pc, devices, mu, wg, panicked, launched, pings,
                   lookups, appended, lookup, resolveOut, scenario, interfaces, err>>

\* line 90: the deferred wg.Done() as the goroutine returns
UnitDone(u) ==
    /\ Running(u, "done")
    /\ wg' = wg - 1
    /\ units' = [v \in DOMAIN units \ {u} |-> units[v]]
    /\ UNCHANGED <<ipnet, ip, pc, devices, mu, panicked, launched, pings,
                   lookups, appended, lookup, resolveOut, scenario, interfaces, err>>

---------------------------------------------------------------------------
(* A sweep of a small network, every interleaving of its goroutines        *)

\* the sweeps checked are of networks with at most this many host bits
MaxHostBits == 2

\* interface addresses of the sweeps
SweepIPs == { <<10, 0, 0, 1>>, <<10, 0, 0, 6>>, <<10, 0, 0, 254>> }

SweepNets ==
    { IPNet(a, ones) : a \in SweepIPs, ones \in (8 * IPv4len - MaxHostBits) .. (8 * IPv4len) }

\* scanSubnet called (lines 78-83): the loop starts at the masked address
Start(n, sc) ==
    /\ ipnet = n
    /\ scenario = sc
    /\ ip = Mask(Mask(n.IP, n.Mask), n.Mask)
    /\ pc = "loop"
    /\ units = << >>
    /\ devices = << >>
    /\ mu = 0
    /\ wg = 0
    /\ panicked = ""
    /\ launched = 0
    /\ pings = {}
    /\ lookups = {}
    /\ appended = << >>
    /\ lookup = [names |-> << >>, err |-> FALSE]
    /\ resolveOut = [done |-> FALSE, panic |-> FALSE, hostname |-> EmptyString]
    /\ interfaces = << >>
    /\ err = FALSE

Init == \E n \in SweepNets : Start(n, "any")

Ping == \E u \in DOMAIN units : UnitPing(u)

Resolve == \E u \in DOMAIN units : UnitResolve(u)

Lock == \E u \in DOMAIN units : UnitLock(u)

AppendDevice == \E u \in DOMAIN units : UnitAppend(u)

CopyIP == \E u \in DOMAIN units : UnitCopy(u)

Unlock == \E u \in DOMAIN units : UnitUnlock(u)

Done == \E u \in DOMAIN units : UnitDone(u)

Next ==
    \/ LoopSkip
    \/ LoopLaunch
    \/ LoopExit
    \/ Wait
    \/ Sort
    \/ Display
    \/ Ping
    \/ Resolve
    \/ Lock
    \/ AppendDevice
    \/ CopyIP
    \/ Unlock
    \/ Done

Spec == Init /\ [][Next]_vars

---------------------------------------------------------------------------
(* The enumeration loop of lines 82-86 on its own, over whole networks.    *)
(* The loop runs in scanSubnet's goroutine and nothing else writes ip, so  *)
(* the launched goroutines are left where they start.                      *)

EnumNets ==
    { IPNet(<<192, 168, 1, 77>>, 24), IPNet(<<10, 0, 0, 0>>, 24),
      IPNet(<<255, 255, 255, 7>>, 24), IPNet(<<192, 168, 1, 130>>, 25),
      IPNet(<<192, 168, 1, 5>>, 25), IPNet(<<172, 16, 1, 9>>, 23),
      IPNet(<<10, 1, 2, 6>>, 30), IPNet(<<10, 1, 2, 255>>, 32),
      IPNet(<<10, 1, 2, 3>>, 32), IPNet(<<255, 255, 255, 255>>, 31) }

InitEnum == \E n \in EnumNets : Start(n, "any")

NextEnum ==
    \/ LoopSkip
    \/ LoopLaunch
    \/ LoopExit

SpecEnum == InitEnum /\ [][NextEnum]_vars

---------------------------------------------------------------------------
(* The loop on the network 0.0.0.0/0.  From the base the loop needs 2^32   *)
(* iterations to come to 255.255.255.255; the runs checked begin in a      *)
(* state of that loop shortly before it: ip at one of the last addresses,  *)
(* every goroutine launched so far returned with its ping unanswered; the  *)
(* history launched counts from there.  A network that ends at             *)
(* 255.255.255.255, which the loop leaves, stands beside it.               *)

\* how many addresses before 255.255.255.255 a run may begin, and how many
\* goroutines it may launch
MaxWrapRun == 10

AllNet == IPNet(<<10, 0, 0, 1>>, 0)

TopNet == IPNet(<<255, 255, 255, 249>>, 29)

LastAddresses == { <<255, 255, 255, d>> : d \in (ByteMod - MaxWrapRun) .. (ByteMod - 1) }

InitWrap ==
    \/ Start(TopNet, "any")
    \/ \E a \in LastAddresses :
         /\ ipnet = AllNet
         /\ scenario = "any"
         /\ ip = a
         /\ launched = 0
         /\ pc = "loop"
         /\ units = << >>
         /\ devices = << >>
         /\ mu = 0
         /\ wg = 0
         /\ panicked = ""
         /\ pings = {}
         /\ lookups = {}
         /\ appended = << >>
         /\ lookup = [names |-> << >>, err |-> FALSE]
         /\ resolveOut = [done |-> FALSE, panic |-> FALSE, hostname |-> EmptyString]
         /\ interfaces = << >>
         /\ err = FALSE

WrapRunOn == launched < MaxWrapRun

NextWrap ==
    \/ (WrapRunOn /\ LoopSkip)
    \/ (WrapRunOn /\ LoopLaunch)
    \/ LoopExit

SpecWrap == InitWrap /\ [][NextWrap]_vars

---------------------------------------------------------------------------
(* Sweeps of a /24 with a fixed prober and resolver.  254 goroutines have  *)
(* too many interleavings to enumerate: the runs checked are those in      *)
(* which at most MaxInFlight goroutines are unfinished at a time (the code *)
(* sets no such limit; Spec checks every interleaving on small networks).  *)

MaxInFlight == 2

InFlight == Cardinality(DOMAIN units)

InitE2E ==
    \/ Start(IPNet(<<192, 168, 1, 77>>, 24), "home")
    \/ Start(IPNet(<<10, 0, 0, 0>>, 24), "quiet")

NextE2E ==
    \/ LoopSkip
    \/ (InFlight < MaxInFlight /\ LoopLaunch)
    \/ LoopExit
    \/ Wait
    \/ Sort
    \/ Display
    \/ Ping
    \/ Resolve
    \/ Lock
    \/ AppendDevice
    \/ CopyIP
    \/ Unlock
    \/ Done

SpecE2E == InitE2E /\ [][NextE2E]_vars

---------------------------------------------------------------------------
(* resolveHostname on its own, for every outcome of the lookup             *)

\* the longest name and the longest list of names drawn
MaxNameLen == 2

MaxNames == 2

Chars == {"a", "."}

SeqsUpTo(S, n) == UNION { [1 .. k -> S] : k \in 0 .. n }

AllLookups ==
    [names : SeqsUpTo(SeqsUpTo(Chars, MaxNameLen), MaxNames), err : BOOLEAN]

InitResolve ==
    /\ lookup \in AllLookups
    /\ resolveOut = [done |-> FALSE, panic |-> FALSE, hostname |-> EmptyString]
    /\ pc = "call"
    /\ ipnet = IPNet(<<10, 0, 0, 1>>, 32)
    /\ scenario = "any"
    /\ ip = <<10, 0, 0, 1>>
    /\ units = << >>
    /\ devices = << >>
    /\ mu = 0
    /\ wg = 0
    /\ panicked = ""
    /\ launched = 0
    /\ pings = {}
    /\ lookups = {}
    /\ appended = << >>
    /\ interfaces = << >>
    /\ err = FALSE

\* resolveHostname called with net.LookupAddr returning `lookup`
ResolveCall ==
    /\ pc = "call"
    /\ ~resolveOut.done
    /\ resolveOut' = [done |-> TRUE,
                      panic |-> ResolveHostname(lookup).panic,
                      hostname |-> ResolveHostname(lookup).hostname]
    /\ UNCHANGED <<ipnet, ip, pc, units, devices, mu, wg, panicked, launched,
                   pings, lookups, appended, lookup, scenario, interfaces, err>>

NextResolve == ResolveCall

SpecResolve == InitResolve /\ [][NextResolve]_vars

---------------------------------------------------------------------------
(* main and getNetworkInterfaces.  IPv4 addresses are held as their 4      *)
(* bytes throughout; a 16-byte address is an IPv6 one.                     *)

\* net.IP.To4 (line 64): the 4 bytes of an IPv4 address, nil for another
To4(a) == IF Len(a) = IPv4len THEN a ELSE << >>

\* an address as iface.Addrs() reports it
Addr(a, m) == [isIPNet |-> TRUE, IP |-> a, Mask |-> m]

\* fe80::1/64
LinkLocal6 ==
    Addr([j \in 1 .. 16 |-> IF j = 1 THEN 254 ELSE IF j = 2 THEN 128
                            ELSE IF j = 16 THEN 1 ELSE 0],
         [j \in 1 .. 16 |-> IF j <= 8 THEN 255 ELSE 0])

\* an interface as net.Interfaces() reports it, with what its Addrs() gives
Interface(name, up, loopback, addrsErr, addrs) ==
    [name |-> name, up |-> up, loopback |-> loopback,
     addrsErr |-> addrsErr, addrs |-> addrs]

\* NetworkInterface{Name, IPNet, IP} (lines 13-17, 65-69)
NetworkInterface(name, ad) ==
    [Name |-> name, IPNet |-> [IP |-> ad.IP, Mask |-> ad.Mask], IP |-> ad.IP]

\* lines 54-71 for one interface: nothing when it is down or loopback or
\* its Addrs() fails, else one entry for each IPv4 *net.IPNet
KeptAddrs(iface) ==
    IF ~iface.up \/ iface.loopback THEN << >>
    ELSE IF iface.addrsErr THEN << >>
    ELSE LET keep == SelectSeq(iface.addrs,
                               LAMBDA ad : ad.isIPNet /\ To4(ad.IP) # << >>)
         IN  [k \in 1 .. Len(keep) |-> NetworkInterface(iface.name, keep[k])]

\* the loop of lines 53-72 from interface k on
RECURSIVE Gather(_, _)
Gather(ifaces, k) ==
    IF k > Len(ifaces) THEN << >>
    ELSE KeptAddrs(ifaces[k]) \o Gather(ifaces, k + 1)

\* getNetworkInterfaces (lines 45-75) on a host h = [err, ifaces]: what
\* net.Interfaces() returns
GetNetworkInterfaces(h) ==
    IF h.err THEN [interfaces |-> << >>, err |-> TRUE]
    ELSE [interfaces |-> Gather(h.ifaces, 1), err |-> FALSE]

\* the hosts the runs of main are on
Hosts ==
    { [err |-> TRUE, ifaces |-> << >>],
      [err |-> FALSE, ifaces |-> << >>],
      [err |-> FALSE, ifaces |->
          << Interface("lo", TRUE, TRUE, FALSE,
                       << Addr(<<127, 0, 0, 1>>, CIDRMask(8)) >>),
             Interface("eth0", TRUE, FALSE, FALSE,
                       << Addr(<<10, 0, 0, 6>>, CIDRMask(31)), LinkLocal6 >>) >>],
      [err |-> FALSE, ifaces |->
          << Interface("wlan0", FALSE, FALSE, FALSE,
                       << Addr(<<10, 0, 9, 9>>, CIDRMask(24)) >>),
             Interface("eth1", TRUE, FALSE, TRUE, << >>),
             Interface("eth0", TRUE, FALSE, FALSE,
                       << Addr(<<10, 0, 0, 1>>, CIDRMask(32)) >>),
             Interface("eth2", TRUE, FALSE, FALSE,
                       << [isIPNet |-> FALSE, IP |-> <<10, 0, 0, 77>>,
                           Mask |-> CIDRMask(32)],
                          Addr(<<10, 0, 0, 254>>, CIDRMask(31)) >>) >>] }

\* before scanSubnet is first called there is no range and no loop variable
NoIPNet == [IP |-> << >>, Mask |-> << >>]

\* a main that goes on whatever getNetworkInterfaces returned
ErrIgnored(e) == FALSE

\* line 30: err != nil
ErrNotNil(e) == e

\* lines 29-33: getNetworkInterfaces; on an error os.Exit(1)
GetInterfaces ==
    /\ pc = "main"
    /\ \E h \in Hosts :
          LET r == GetNetworkInterfaces(h)
          IN  /\ interfaces' = r.interfaces
              /\ err' = r.err
              /\ pc' = IF ErrNotNil(r.err) THEN "exit1" ELSE "range"
    /\ UNCHANGED <<ipnet, ip, units, devices, mu, wg, panicked, launched,
                   pings, lookups, appended, lookup, resolveOut, scenario>>

\* lines 35-40: the next interface; scanSubnet(iface.IPNet) is entered and
\* stands at its loop (lines 78-83)
ScanSubnet ==
    /\ pc \in {"range", "displayed"}
    /\ interfaces # << >>
    /\ ipnet' = Head(interfaces).IPNet
    /\ ip' = Mask(Mask(ipnet'.IP, ipnet'.Mask), ipnet'.Mask)
    /\ interfaces' = Tail(interfaces)
    /\ pc' = "loop"
    /\ units' = << >>
    /\ devices' = << >>
    /\ mu' = 0
    /\ wg' = 0
    /\ launched' = 0
    /\ pings' = {}
    /\ lookups' = {}
    /\ appended' = << >>
    /\ UNCHANGED <<panicked, lookup, resolveOut, scenario, err>>

\* line 43: no interface is left and main returns
MainReturn ==
    /\ pc \in {"range", "displayed"}
    /\ interfaces = << >>
    /\ pc' = "exit0"
    /\ UNCHANGED <<ipnet, ip, units, devices, mu, wg, panicked, launched,
                   pings, lookups, appended, lookup, resolveOut, scenario,
                   interfaces, err>>

InitMain ==
    /\ pc = "main"
    /\ ipnet = NoIPNet
    /\ ip = << >>
    /\ scenario = "any"
    /\ units = << >>
    /\ devices = << >>
    /\ mu = 0
    /\ wg = 0
    /\ panicked = ""
    /\ launched = 0
    /\ pings = {}
    /\ lookups = {}
    /\ appended = << >>
    /\ lookup = [names |-> << >>, err |-> FALSE]
    /\ resolveOut = [done |-> FALSE, panic |-> FALSE, hostname |-> EmptyString]
    /\ interfaces = << >>
    /\ err = FALSE

NextMain ==
    \/ GetInterfaces
    \/ ScanSubnet
    \/ MainReturn
    \/ LoopSkip
    \/ LoopLaunch
    \/ LoopExit
    \/ Wait
    \/ Sort
    \/ Display
    \/ Ping
    \/ Resolve
    \/ Lock
    \/ AppendDevice
    \/ CopyIP
    \/ Unlock
    \/ Done

SpecMain == InitMain /\ [][NextMain]_vars

---------------------------------------------------------------------------
(* incrementIP on its own, on addresses whose bytes are at, next to and    *)
(* away from the two ends of a byte                                        *)

IncBytes == {0, 1, 128, 254, 255}

InitIncrement ==
    /\ ip \in [1 .. IPv4len -> IncBytes]
    /\ pc = "increment"
    /\ ipnet = NoIPNet
    /\ scenario = "any"
    /\ units = << >>
    /\ devices = << >>
    /\ mu = 0
    /\ wg = 0
    /\ panicked = ""
    /\ launched = 0
    /\ pings = {}
    /\ lookups = {}
    /\ appended = << >>
    /\ lookup = [names |-> << >>, err |-> FALSE]
    /\ resolveOut = [done |-> FALSE, panic |-> FALSE, hostname |-> EmptyString]
    /\ interfaces = << >>
    /\ err = FALSE

\* incrementIP(ip) called: the buffer is changed in place
IncrementCall ==
    /\ pc = "increment"
    /\ ip' = IncrementIP(ip)
    /\ pc' = "incremented"
    /\ UNCHANGED <<ipnet, units, devices, mu, wg, panicked, launched, pings,
                   lookups, appended, lookup, resolveOut, scenario,
                   interfaces, err>>

NextIncrement == IncrementCall

SpecIncrement == InitIncrement /\ [][NextIncrement]_vars

---------------------------------------------------------------------------
(* Sweeps under a fair scheduler: the Go runtime runs every goroutine     *)
(* that can run, scanSubnet's own and each one it launched; a ping or      *)
(* lookup that is running comes back (ping -c 1 -W 1 ends).                *)

\* the sweeps checked for progress are of networks with at most this many
\* host bits
MaxFairHostBits == 1

FairNets ==
    { IPNet(a, ones) : a \in SweepIPs,
                       ones \in (8 * IPv4len - MaxFairHostBits) .. (8 * IPv4len) }

InitFair == \E n \in FairNets : Start(n, "any")

\* the launch numbers of such a sweep
SweepUnits == 1 .. (2 ^ MaxFairHostBits)

\* one step of scanSubnet's own goroutine
MainStep == LoopSkip \/ LoopLaunch \/ LoopExit \/ Wait \/ Sort \/ Display

\* one step of goroutine u
UnitStep(u) ==
    \/ UnitPing(u)
    \/ UnitResolve(u)
    \/ UnitLock(u)
    \/ UnitAppend(u)
    \/ UnitCopy(u)
    \/ UnitUnlock(u)
    \/ UnitDone(u)

Fairness ==
    /\ WF_vars(MainStep)
    /\ \A u \in SweepUnits : WF_vars(UnitStep(u))

SpecFair == InitFair /\ [][Next]_vars /\ Fairness

---------------------------------------------------------------------------
(* Properties                                                              *)

Returned == pc \in {"returned", "displayed"}

PastBarrier == pc \in {"sort", "returned", "displayed"}

Slash24 == ipnet.Mask = CIDRMask(24)

\* the addresses appended came in ascending order of final octet
AppendedAscending ==
    \A i, j \in 1 .. Len(appended) :
        i < j => Octet(appended[i], 3) <= Octet(appended[j], 3)

\* C1: no failure of a probe (timeout, unreachable, permission denied,
\* ping missing) aborts the sweep or the process: pingHost returns false
\* and the sweep goes on.  The code panics when ping never started.
C1_ProbeFailureAbsorbed == pc # "crashed"

\* C2 as claimed: every address a goroutine is launched for is in the
\* range, is not the network address and does not end in 255, whatever
\* the mask.
C2_NeverNetworkAddress ==
    \A u \in DOMAIN units :
        /\ Contains(ipnet, units[u].targetIP)
        /\ units[u].targetIP # Base(ipnet)
        /\ Octet(units[u].targetIP, 3) # 255

\* C2 as amended: every address a goroutine is launched for is in the
\* range and ends neither in 0 nor in 255; it differs from the network
\* address whenever that address ends in 0 (every prefix of 24 bits or less).
C2_InRangeNotZeroNot255 ==
    \A u \in DOMAIN units :
        /\ Contains(ipnet, units[u].targetIP)
        /\ Octet(units[u].targetIP, 3) \notin {0, 255}
        /\ (Octet(Base(ipnet), 3) = 0 => units[u].targetIP # Base(ipnet))

\* a /23 enumerated to its end
C2_Witness ==
    /\ pc = "wait"
    /\ ipnet.Mask = CIDRMask(23)
    /\ launched = 508
    /\ \E u \in DOMAIN units : units[u].targetIP = <<172, 16, 1, 254>>

\* C3 as claimed: the loop over a /24 produces exactly 253 candidates.
C3_Slash24Gives253 == (pc = "wait" /\ Slash24) => launched = 253

\* C3 as amended: the loop over a /24 produces exactly 254 candidates
\* (final octets 1 to 254).
C3_Slash24Gives254 ==
    (pc = "wait" /\ Slash24) =>
        /\ launched = 254
        /\ { Octet(units[u].targetIP, 3) : u \in DOMAIN units } = 1 .. 254

C3_Witness == pc = "wait" /\ Slash24 /\ launched = 254

\* C4: the loop ends and tests no address twice, for every network: each
\* iteration that goes on tests an address numerically above the one
\* before, so the addresses tested are distinct and at most 2^32.  On
\* 0.0.0.0/0 the loop goes on from 255.255.255.255 to 0.0.0.0.
C4_LoopAscends ==
    [][(pc = "loop" /\ pc' = "loop" /\ ip' # ip /\ Contains(ipnet, ip'))
          => Below(ip, ip')]_vars

\* C5: the result holds exactly one Device for each host whose ping
\* succeeded and none for any other address: no two Devices share an
\* address, none is lost, and when every ping succeeded there are as many
\* Devices as goroutines launched.
C5_OneDevicePerReachable ==
    Returned =>
        /\ \A i, j \in 1 .. Len(devices) :
              i # j => devices[i].IP # devices[j].IP
        /\ { IPString(devices[i].IP) : i \in 1 .. Len(devices) } = pings
        /\ Len(devices) = Cardinality(pings)
        /\ (Cardinality(pings) = launched => Len(devices) = launched)

\* four goroutines, all reachable, appended out of order
C5_Witness ==
    /\ Returned
    /\ launched = 4
    /\ Len(devices) = 4
    /\ ~AppendedAscending

\* resolve(a) under a fixed scenario: resolveHostname of what the lookup
\* returns for a
HostnameOf(sc, a) ==
    ResolveHostname(CHOOSE l \in LookupChoices(sc, IPString(a)) : TRUE).hostname

ResultPairs ==
    { <<IPString(devices[i].IP), devices[i].Hostname>> : i \in 1 .. Len(devices) }

\* the bytes a dotted quad names, read from character i on
RECURSIVE ParseFrom(_, _, _, _)
ParseFrom(h, i, field, fields) ==
    IF i > Len(h) THEN Append(fields, field)
    ELSE IF h[i] = "." THEN ParseFrom(h, i + 1, 0, Append(fields, field))
    ELSE ParseFrom(h, i + 1,
                   10 * field + (CHOOSE d \in 0 .. 9 : Digits[d + 1] = h[i]),
                   fields)

ParseIP(h) == ParseFrom(h, 1, 0, << >>)

\* the (address, hostname) pairs the resolver was seen to give
Resolved == { <<ParseIP(p[1]), p[2]>> : p \in lookups }

DistinctOctets(S) == \A p, q \in S : p # q => Octet(p[1], 3) # Octet(q[1], 3)

\* the pairs of S as Devices in ascending order of final octet
AscendingDevices(S) ==
    CHOOSE t \in [1 .. Cardinality(S) -> { Device(p[1], TRUE, p[2]) : p \in S }] :
        \A i, j \in 1 .. Cardinality(S) :
            i < j => Octet(t[i].IP, 3) < Octet(t[j].IP, 3)

\* the reachable candidates of network n under a fixed scenario, each with
\* resolve of its address, in ascending order of final octet
Expected(sc, n) ==
    AscendingDevices({ <<a, HostnameOf(sc, a)>> :
        a \in { b \in Reachable(sc) : Contains(n, b) /\ Octet(b, 3) \notin {0, 255} } })

HomeResult ==
    << Device(<<192, 168, 1, 1>>, TRUE, GatewayLan),
       Device(<<192, 168, 1, 50>>, TRUE, EmptyString),
       Device(<<192, 168, 1, 254>>, TRUE, EmptyString) >>

Range(q) == { q[i] : i \in 1 .. Len(q) }

C8_ResultIndependentOfSchedule ==
    Returned =>
        /\ ResultPairs = lookups
        /\ { p[1] : p \in lookups } = pings
        /\ Cardinality(lookups) = Cardinality(pings)
        /\ DistinctOctets(Resolved) => devices = AscendingDevices(Resolved)

\* a sweep returned whose goroutines appended in descending order and
\* resolved different names
C8_Witness ==
    /\ Returned
    /\ Len(appended) = 3
    /\ \A i, j \in 1 .. Len(appended) :
          i < j => Octet(appended[i], 3) > Octet(appended[j], 3)
    /\ \E p, q \in lookups : p[2] # q[2]

\* C9: scanSubnet sorts and returns only after every goroutine launched
\* has returned: from the sort on no goroutine is left, the counter is
\* zero, the mutex is free, and the slice holds a Device for every host
\* whose ping succeeded (nothing is added later, nothing is missing).
C9_BarrierBeforeSort ==
    PastBarrier =>
        /\ DOMAIN units = {}
        /\ wg = 0
        /\ mu = 0
        /\ Len(devices) = Cardinality(pings)
        /\ Len(devices) = Len(appended)
        /\ \A i \in 1 .. Len(devices) : devices[i].IP # ZeroIP

\* the barrier passed after four goroutines, two of which appended
C9_Witness ==
    /\ pc = "sort"
    /\ launched = 4
    /\ Len(devices) = 2

\* one trailing dot removed
StripDot(h) ==
    IF Len(h) > 0 /\ h[Len(h)] = "." THEN SubSeq(h, 1, Len(h) - 1) ELSE h

PastPing == {"resolve", "lock", "append", "copy", "unlock"}

\* C11: resolveHostname is called for an address only after pingHost of
\* that same address returned true: every goroutine at or past its resolve
\* has online = true and its host among the hosts that answered, every
\* host looked up and every address appended answered its ping, and a
\* goroutine whose ping failed has looked up and appended nothing.
C11_ResolveOnlyReachable ==
    /\ \A u \in DOMAIN units :
          units[u].pc \in PastPing =>
              units[u].online /\ IPString(units[u].targetIP) \in pings
    /\ \A p \in lookups : p[1] \in pings
    /\ \A i \in 1 .. Len(appended) : IPString(appended[i]) \in pings
    /\ \A i \in 1 .. Len(devices) :
          /\ devices[i].Online
          /\ devices[i].IP # ZeroIP => IPString(devices[i].IP) \in pings
    /\ \A u \in DOMAIN units :
          (units[u].pc = "done" /\ ~units[u].online) =>
              /\ IPString(units[u].targetIP) \notin { p[1] : p \in lookups }
              /\ units[u].targetIP \notin Range(appended)

\* one goroutine's ping failed and it goes to its return while another,
\* whose ping succeeded and whose name is resolved, is appending
C11_Witness ==
    \E u, v \in DOMAIN units :
        /\ units[u].pc = "done" /\ ~units[u].online
        /\ units[v].pc = "copy" /\ units[v].online
        /\ lookups # {}


\* no sweep has been started in this run: scanSubnet was never entered
NoSweepStarted ==
    /\ ipnet = NoIPNet
    /\ ip = << >>
    /\ launched = 0
    /\ units = << >>
    /\ devices = << >>
    /\ wg = 0
    /\ pings = {}
    /\ lookups = {}
    /\ appended = << >>

\* C12: when getNetworkInterfaces returns an error the run ends with
\* os.Exit(1) before any sweep: in every state in which err is set main
\* has exited with status 1 and scanSubnet was never entered (no range, no
\* candidate, no goroutine, no ping); and status 1 comes of nothing else.
C12_EnumerationFailureAborts ==
    /\ err => (pc = "exit1" /\ NoSweepStarted /\ interfaces = << >>)
    /\ pc = "exit1" => err

\* net.Interfaces() failed and main has exited
C12_Witness == pc = "exit1" /\ err /\ NoSweepStarted


\* where a goroutine stands between mu.Lock() and mu.Unlock()
InAppend == {"append", "copy", "unlock"}

\* the mutex is held by exactly the goroutine that is appending, if any
LockHeldOnlyInAppend ==
    /\ mu # 0 => (mu \in DOMAIN units /\ units[mu].pc \in InAppend)
    /\ \A u \in DOMAIN units : units[u].pc \in InAppend => mu = u
    /\ \A u \in DOMAIN units :
          units[u].pc \in {"ping", "resolve", "lock", "done"} => mu # u
    /\ Cardinality({ u \in DOMAIN units : units[u].pc \in InAppend }) <= 1

\* C13: the mutex is held only while a Device is appended: no goroutine
\* holds it inside pingHost or resolveHostname (or anywhere outside lines
\* 96-101), at most one goroutine is between Lock and Unlock at a time,
\* and every step of a goroutine that changes the slice is taken by the
\* goroutine holding the mutex, which keeps it over that step.
C13_LockOnlyAroundAppend ==
    [][ /\ LockHeldOnlyInAppend
        /\ LockHeldOnlyInAppend'
        /\ (devices' # devices /\ pc # "sort") =>
              /\ mu # 0
              /\ mu' = mu
              /\ units[mu].pc \in {"append", "copy"}
              /\ units'[mu].pc # units[mu].pc ]_vars

\* one goroutine copies its address in under the mutex while a second is
\* inside resolveHostname and a third waits for the mutex
C13_Witness ==
    \E u, v, w \in DOMAIN units :
        /\ units[u].pc = "copy" /\ mu = u
        /\ units[v].pc = "resolve"
        /\ units[w].pc = "lock"


\* C14: every goroutine works on its own copy of the address, taken at
\* its launch: the goroutine launched by a step reads as targetIP the
\* value ip had before that step's incrementIP; no step (of the loop, of
\* another goroutine) changes the targetIP of a goroutine still running;
\* the addresses of the goroutines running differ from one another; and
\* the host pinged, the host looked up and the address copied into the
\* Device by a step are the targetIP of the goroutine that takes it.
C14_OwnCopyOfAddress ==
    [][ /\ launched' = launched + 1 => DOMAIN units' # DOMAIN units
        /\ \A n \in DOMAIN units' \ DOMAIN units : TargetIP(n)' = ip
        /\ \A u \in DOMAIN units \cap DOMAIN units' : TargetIP(u)' = TargetIP(u)
        /\ \A u, v \in DOMAIN units' : u # v => TargetIP(u)' # TargetIP(v)'
        /\ \A u \in DOMAIN units \cap DOMAIN units' :
              /\ (units[u].pc = "ping" /\ units'[u].pc = "resolve") =>
                     pings' = pings \cup {IPString(units[u].targetIP)}
              /\ (units[u].pc = "resolve" /\ units'[u].pc = "lock") =>
                     lookups' = lookups \cup
                        {<<IPString(units[u].targetIP), units'[u].hostname>>}
              /\ (units[u].pc = "copy" /\ units'[u].pc = "unlock") =>
                     /\ devices'[Len(devices')].IP = units[u].targetIP
                     /\ appended' = Append(appended, units[u].targetIP) ]_vars

\* the loop has gone through the whole range while the first goroutine
\* is still inside pingHost and the last one copies its address in
C14_Witness ==
    /\ pc = "wait"
    /\ launched = 4
    /\ 1 \in DOMAIN units /\ units[1].pc = "ping"
    /\ 4 \in DOMAIN units /\ units[4].pc = "copy"
    /\ units[1].targetIP # units[4].targetIP
    /\ ip \notin { units[u].targetIP : u \in DOMAIN units }


\* the values x of byte j with x AND mask[j] = ipnet.IP[j] AND mask[j]
ByteChoices(n, j) ==
    { x \in Byte : ByteAnd(x, n.Mask[j]) = ByteAnd(n.IP[j], n.Mask[j]) }

\* {a : a AND mask = base}, the AND taken byte by byte
RangeOf(n) ==
    { <<a, b, c, d>> : a \in ByteChoices(n, 1), b \in ByteChoices(n, 2),
                       c \in ByteChoices(n, 3), d \in ByteChoices(n, 4) }

\* {a : a AND mask = base, a[3] not in {0, 255}}
Candidates(n) == { a \in RangeOf(n) : Octet(a, 3) \notin {0, 255} }

\* the addresses goroutines were launched for
Targets == { units[u].targetIP : u \in DOMAIN units }

\* C15 (networks with a mask other than 0.0.0.0, whose loop ends): the
\* loop starts at the base, ipnet.IP AND mask, also when ipnet.IP is not
\* aligned, goes through the range in strictly ascending order and
\* launches a goroutine for every address of the range that ends neither
\* in 0 nor in 255: while the loop variable is in the range the addresses
\* launched so far are exactly the candidates below it, each launch
\* numerically above the one before, one goroutine each; once it has
\* left the range they are exactly
\* {a : a AND mask = base, a[3] not in {0, 255}}.
C15_EnumeratesCandidates ==
    /\ DOMAIN units = 1 .. launched
    /\ Cardinality(Targets) = launched
    /\ \A u \in 1 .. (launched - 1) :
          Below(units[u].targetIP, units[u + 1].targetIP)
    /\ (pc = "loop" /\ Contains(ipnet, ip)) =>
          /\ ip \in RangeOf(ipnet)
          /\ Targets = { a \in Candidates(ipnet) : Below(a, ip) }
    /\ (pc = "wait" \/ ~Contains(ipnet, ip)) => Targets = Candidates(ipnet)

\* the /25 of the interface address 192.168.1.130 enumerated to its end,
\* from its base 192.168.1.128 on
C15_Witness ==
    /\ pc = "wait"
    /\ ipnet = IPNet(<<192, 168, 1, 130>>, 25)
    /\ launched = 127
    /\ units[1].targetIP = <<192, 168, 1, 128>>
    /\ units[127].targetIP = <<192, 168, 1, 254>>


\* 2^16: a big-endian 32-bit value is High * 2^16 + Low
HalfMod == ByteMod * ByteMod

High(a) == a[1] * ByteMod + a[2]

Low(a) == a[3] * ByteMod + a[4]

\* the Go index of the first byte from the right that is not 255, or -1
FirstNotFull(a) ==
    IF \A j \in 1 .. IPv4len : a[j] = ByteMod - 1 THEN -1
    ELSE (CHOOSE j \in 1 .. IPv4len :
              /\ a[j] # ByteMod - 1
              /\ \A i \in (j + 1) .. IPv4len : a[i] = ByteMod - 1) - 1

\* C16: incrementIP turns a 4-byte address into its big-endian 32-bit
\* value plus one modulo 2^32 (stated on the two 16-bit halves, the low
\* half carrying into the high one): every byte to the right of the first
\* byte that is not 255 goes from 255 to 0, that byte goes up by one,
\* the bytes to its left stay, and 255.255.255.255 becomes 0.0.0.0.
C16_IncrementIsPlusOne ==
    [][ (pc = "increment" /\ pc' = "incremented") =>
          /\ Len(ip') = IPv4len
          /\ Low(ip') = (Low(ip) + 1) % HalfMod
          /\ High(ip') = (High(ip) + ((Low(ip) + 1) \div HalfMod)) % HalfMod
          /\ \A j \in 0 .. (IPv4len - 1) :
                Octet(ip', j) =
                    IF j > FirstNotFull(ip) THEN 0
                    ELSE IF j = FirstNotFull(ip) THEN Octet(ip, j) + 1
                    ELSE Octet(ip, j)
          /\ ip = [j \in 1 .. IPv4len |-> ByteMod - 1] => ip' = ZeroIP ]_vars

\* incrementIP has turned 255.255.255.255 into 0.0.0.0
C16_Witness == pc = "incremented" /\ ip = ZeroIP


\* C17: in a sweep in which every pingHost and resolveHostname call
\* returns (none panics, none hangs), under a fair scheduler, scanSubnet
\* passes wg.Wait() and returns, and every goroutine launched comes to its
\* own return (after its ping, and its resolve and append when online):
\* none is left behind.
C17_EveryUnitCompletes ==
    ([](pc # "crashed")) =>
        /\ <>Returned
        /\ \A u \in SweepUnits :
              [](u \in DOMAIN units => <>(u \notin DOMAIN units))

\* a sweep of two goroutines has returned, both of them done, one with a
\* Device appended and one without
C17_Witness ==
    /\ pc = "returned"
    /\ launched = 2
    /\ units = << >>
    /\ Len(devices) = 1
    /\ panicked = ""


\* C18: goroutines are launched with no admission limit: whenever the
\* loop stands at a candidate the launch can be taken, whatever the
\* goroutines launched before are doing, and as long as none of them has
\* returned all of them are in flight; so the loop can come to its end
\* with every one of the N goroutines still inside pingHost.
C18_LaunchNeverWaits ==
    /\ (pc = "loop" /\ Contains(ipnet, ip) /\ ~Skipped(ip)) => ENABLED LoopLaunch
    /\ (pc = "loop" /\ Contains(ipnet, ip) /\ Skipped(ip)) => ENABLED LoopSkip
    /\ (wg = launched /\ Alive) => InFlight = launched

\* the loop over a /30 with four candidates has ended and all four
\* goroutines are inside pingHost
C18_Witness ==
    /\ pc = "wait"
    /\ Cardinality(Candidates(ipnet)) = 4
    /\ DOMAIN units = 1 .. 4
    /\ \A u \in DOMAIN units : units[u].pc = "ping"


\* C19: scanSubnet leaves the range it was given as it is: no step of the
\* sweep, the incrementIP of the loop included, changes a byte of
\* ipnet.IP or of ipnet.Mask, while the loop variable moves on.
C19_RangeUnchanged ==
    [][ /\ ipnet'.IP = ipnet.IP
        /\ ipnet'.Mask = ipnet.Mask
        /\ ipnet' = ipnet ]_vars

\* the sweep of 10.0.0.6/30 has returned: the range still holds the
\* interface address though the loop variable went through 10.0.0.6 and
\* on out of the range
C19_Witness ==
    /\ Returned
    /\ ipnet = IPNet(<<10, 0, 0, 6>>, 30)
    /\ launched = 4
    /\ ip = <<10, 0, 0, 8>>

===========================================================================
